---------------------------- MODULE Spec2Model ----------------------------
(***************************************************************************)
(* A model of the sn-clickbait bot: the packaged pipeline                  *)
(* (src/sn-clickbait/bot.py: Article, TextImage, Tweet) and the earlier    *)
(* single-class variant (src/bot.py: ClickbaitBot).                        *)
(*                                                                         *)
(* Python strings are sequences of one-character strings, so that len,     *)
(* split, join, strip, find, casefold and the slicing of the code are      *)
(* computed rather than assumed.                                           *)
(***************************************************************************)
EXTENDS Integers, Sequences, FiniteSets, TLC

VARIABLES
    variant,         \* "pkg": src/sn-clickbait/bot.py, "legacy": src/bot.py
    \* ---- parse_text (the line wrapper)
    text,            \* the text handed to parse_text
    font,            \* font.getsize(word)[0], for the words of the text
    word_list,       \* the list the loop iterates over and inserts into
    word_idx,        \* the loop's own counter (word_idx / words)
    sentence_width,  \* the running width (sentence_width / width)
    it,              \* the list iterator's position (0-based index of the next item)
    parsed_text,     \* the value returned
    wpc,             \* "idle" | "loop" | "done" | "MemoryError"
    \* ---- the scraped article
    title,           \* Article.title
    preface,         \* Article.preface
    body,            \* Article.body: the list of paragraphs
    \* ---- check_article (the classifier)
    is_valid,        \* the value check_article returned
    log,             \* what check_article logged, "" when nothing
    cpc,             \* "idle" | "call" | "done"
    \* ---- get_source_url (the attribution resolver)
    source_url,      \* the value get_source_url returned
    quotes,          \* re.findall(r'"([^"]+)"', self.text)
    qi,              \* the quotes the loop has gone through
    searches,        \* the searches issued: the query and what came back
    errors,          \* what logging.error was handed (the earlier variant)
    apc,             \* "idle" | "start" | "loop" | "done" | "raised"
    \* ---- create_tweet (the caption composer)
    keywords,        \* Article.keywords
    hashtag_dict,    \* hashtags.json: keyword, hashtag
    tweet,           \* the caption composed
    keyword_list,    \* the hashtags and keywords listed below the title
    tpc,             \* "idle" | "call" | "done"
    \* ---- TextImage / draw_image
    ipc,             \* "idle" | "title" | "preface" | "body" | "draw" | "measured" | "done"
    bi,              \* the body paragraphs handed to parse_text so far
    title_parsed,    \* parse_text(title)
    preface_parsed,  \* parse_text(preface)
    body_list,       \* the parsed paragraphs (body_parsed before the join)
    heights,         \* TextImage's title_height, preface_height, body_height
    img,             \* the image file written (img.png / out.png)
    \* ---- one run of the program (__main__ / ClickbaitBot.main)
    rpc,             \* where the run is
    run,             \* the runs started
    CUSTOM_URL,      \* CUSTOM_URL / test_url, <<>> for None
    DEV,             \* the earlier variant's DEV flag
    url,             \* Article.url / article_url
    new_article,     \* Article.new_article
    saved_url,       \* the file SAVE_FILE: whether it exists, the url pickled
    marker_before,   \* SAVE_FILE as the run found it
    checked,         \* the calls of check_new_url: url, value returned
    fetched,         \* the requests for the article page of this run
    sent,            \* the calls of update_with_media of this run
    published,       \* the tweets posted on the account
    published_before, \* the tweets posted when the run started
    printed,         \* whether the caption was printed (logged) instead
    raised           \* the exception that ended the run, "" when none

wrapVars == <<text, font, word_list, word_idx, sentence_width, it, parsed_text, wpc>>
articleVars == <<title, preface, body>>
clsVars == <<is_valid, log, cpc>>
attrVars == <<source_url, quotes, qi, searches, errors, apc>>
capVars == <<keywords, hashtag_dict, tweet, keyword_list, tpc>>
imgVars == <<ipc, bi, title_parsed, preface_parsed, body_list, heights, img>>
runVars == <<rpc, run, CUSTOM_URL, DEV, url, new_article, saved_url, marker_before,
             checked, fetched, sent, published, published_before, printed, raised>>
vars == <<variant, wrapVars, articleVars, clsVars, attrVars, capVars, imgVars, runVars>>

-----------------------------------------------------------------------------
(* Bounds of the model *)

\* longest text handed to parse_text, in characters
MaxTextLen == 5
\* most paragraphs of an article body
MaxParagraphs == 2
\* most keywords of an article
MaxKeywords == 2
\* most runs of the program
MaxRuns == 2
\* most calls of check_new_url in a row
MaxCalls == 4
\* most lines of a wrapped block laid out
MaxLines == 3
\* the greatest height measured for a block
MaxHeight == 3
\* entries the word list can hold before the interpreter raises MemoryError
MaxList == 3

-----------------------------------------------------------------------------
(* Python string primitives *)

SP == " "
NL == "\n"
Whitespace == {SP, NL}

\* a string literal of the code, as its sequence of characters
Chars(str) == [i \in 1..Len(str) |-> SubSeq(str, i, i)]

Range(s) == {s[i] : i \in 1..Len(s)}

\* all sequences over S of length 0..n
SeqsUpTo(S, n) == UNION {[1..k -> S] : k \in 0..n}

RECURSIVE Concat(_)
\* ''.join(parts)
Concat(parts) ==
    IF parts = <<>> THEN <<>> ELSE Head(parts) \o Concat(Tail(parts))

RECURSIVE Join(_, _)
\* sep.join(parts)
Join(sep, parts) ==
    IF parts = <<>> THEN <<>>
    ELSE IF Len(parts) = 1 THEN parts[1]
    ELSE parts[1] \o sep \o Join(sep, Tail(parts))

RECURSIVE SplitFrom(_, _)
\* str.split() from position i on: the next run of non-whitespace characters
\* and the words after it
SplitFrom(s, i) ==
    LET rest == {k \in i..Len(s) : s[k] \notin Whitespace}
    IN  IF rest = {} THEN <<>>
        ELSE LET b == CHOOSE k \in rest : \A m \in rest : k <= m
                 stops == {k \in b..Len(s) : s[k] \in Whitespace}
                 e == IF stops = {} THEN Len(s)
                      ELSE (CHOOSE k \in stops : \A m \in stops : k <= m) - 1
             IN  <<SubSeq(s, b, e)>> \o SplitFrom(s, e + 1)

\* str.split(): the maximal runs of non-whitespace characters
Split(s) == SplitFrom(s, 1)

RECURSIVE LStrip(_)
LStrip(s) ==
    IF s # <<>> /\ Head(s) \in Whitespace THEN LStrip(Tail(s)) ELSE s

RECURSIVE RStrip(_)
RStrip(s) ==
    IF s # <<>> /\ s[Len(s)] \in Whitespace
    THEN RStrip(SubSeq(s, 1, Len(s) - 1)) ELSE s

\* str.strip()
Strip(s) == RStrip(LStrip(s))

\* list.insert(i, x), i a 0-based index within the list
ListInsert(l, i, x) == SubSeq(l, 1, i) \o <<x>> \o SubSeq(l, i + 1, Len(l))

-----------------------------------------------------------------------------
(* TextImage.parse_text / ClickbaitBot.parse_text *)

IMG_WIDTH == 1100
SIDE_PAD == 25
LEGACY_MAX_WIDTH == 950

\* the wrap width: IMG_WIDTH - (SIDE_PAD*2) in the packaged code, 950 before
max_width(v) == IF v = "pkg" THEN IMG_WIDTH - (SIDE_PAD * 2) ELSE LEGACY_MAX_WIDTH

\* word_list = [word + ' ' for word in text.split()]
InitialWordList(t) == [i \in 1..Len(Split(t)) |-> Append(Split(t)[i], SP)]

\* font.getsize(word)[0]; the loop never measures an inserted line break
getsize(f, word) == IF word \in DOMAIN f THEN f[word] ELSE 0

\* a line break inserted after the word that overflowed instead of before it
InsertAtAfterWord(idx) == idx

\* the place the line break is inserted at: word_list.insert(word_idx-1, '\n')
InsertAt(idx) == idx - 1

\* the running width after a line break was inserted: sentence_width = 0
WidthAfterBreak(w) == 0

\* word_list grows by one line break a pass when a word is wider than the wrap
\* width; a text whose words fit ends with at most one line break a word
ListCap(t) == 2 * Len(InitialWordList(t)) + MaxList

\* the tail of parse_text: the packaged code joins and strips; the earlier code
\* deletes a trailing line break and joins
FinishText(v, wl) ==
    IF v = "pkg" THEN Strip(Concat(wl))
    ELSE IF Len(wl) # 0 /\ wl[Len(wl)] = <<NL>>
         THEN Concat(SubSeq(wl, 1, Len(wl) - 1))
         ELSE Concat(wl)

\* one pass of `for word in word_list`, or the end of the loop
ParseTextStep ==
    /\ wpc = "loop"
    /\ IF it >= Len(word_list)
       THEN /\ wpc' = "done"
            /\ parsed_text' = FinishText(variant, word_list)
            /\ UNCHANGED <<word_list, word_idx, sentence_width, it>>
       ELSE LET word == word_list[it + 1]
                idx == word_idx + 1
                w == sentence_width + getsize(font, word)
            IN  /\ word_idx' = idx
                /\ it' = it + 1
                /\ IF w > max_width(variant)
                   THEN IF Len(word_list) >= ListCap(text)
                        THEN /\ wpc' = "MemoryError"
                             /\ UNCHANGED <<word_list, sentence_width>>
                        ELSE /\ word_list' = ListInsert(word_list, InsertAt(idx), <<NL>>)
                             /\ sentence_width' = WidthAfterBreak(w)
                             /\ wpc' = "loop"
                   ELSE /\ sentence_width' = w
                        /\ UNCHANGED <<word_list, wpc>>
                /\ UNCHANGED parsed_text
    /\ UNCHANGED <<variant, text, font, articleVars, clsVars, attrVars, capVars, imgVars, runVars>>

\* the characters of the texts wrapped
WrapAlphabet == {"a", "b", SP}

\* the widths a font gives a word: a third and a half of the wrap width, and
\* one pixel more than the wrap width
Widths(v) == {max_width(v) \div 3, max_width(v) \div 2, max_width(v) + 1}

\* no article scraped yet
NoArticle == title = <<>> /\ preface = <<>> /\ body = <<>>

\* check_article not called
IdleClassifier == is_valid = FALSE /\ log = "" /\ cpc = "idle"

\* Python's None, and a str
None == [is_none |-> TRUE, str |-> <<>>]
Str(chars) == [is_none |-> FALSE, str |-> chars]

\* get_source_url not called
IdleResolver ==
    /\ source_url = None /\ quotes = <<>> /\ qi = 0
    /\ searches = <<>> /\ errors = 0 /\ apc = "idle"

\* create_tweet not called
IdleComposer ==
    /\ keywords = <<>> /\ hashtag_dict = <<>> /\ tweet = <<>>
    /\ keyword_list = <<>> /\ tpc = "idle"

\* no image written
NoImage == [saved |-> FALSE, title_height |-> 0, preface_height |-> 0,
            body_height |-> 0, y_title |-> 0, y_preface |-> 0, y_body |-> 0,
            band |-> 0, height |-> 0]

\* nothing measured
NoHeights == [title |-> 0, preface |-> 0, body |-> 0]

\* TextImage not built
IdleImage ==
    /\ ipc = "idle" /\ bi = 0 /\ title_parsed = <<>> /\ preface_parsed = <<>>
    /\ heights = NoHeights
    /\ body_list = <<>> /\ img = NoImage

\* SAVE_FILE does not exist
NoFile == [exists |-> FALSE, url |-> <<>>]

\* the program not run
IdleRun ==
    /\ rpc = "idle" /\ run = 0 /\ url = <<>>
    /\ new_article = FALSE /\ saved_url = NoFile /\ marker_before = NoFile
    /\ checked = <<>> /\ fetched = 0 /\ sent = 0 /\ published = 0
    /\ published_before = 0 /\ printed = FALSE /\ raised = ""

InitWrap ==
    /\ variant \in {"pkg", "legacy"}
    /\ CUSTOM_URL = <<>>
    /\ DEV = FALSE
    /\ NoArticle
    /\ IdleClassifier
    /\ IdleResolver
    /\ IdleComposer
    /\ IdleImage
    /\ IdleRun
    /\ text \in SeqsUpTo(WrapAlphabet, MaxTextLen)
    /\ font \in [Range(InitialWordList(text)) -> Widths(variant)]
    /\ word_list = InitialWordList(text)
    /\ word_idx = 0
    /\ sentence_width = 0
    /\ it = 0
    /\ parsed_text = <<>>
    /\ wpc = "loop"

NextWrap == ParseTextStep

SpecWrap == InitWrap /\ [][NextWrap]_vars


-----------------------------------------------------------------------------
(* Article.check_article / ClickbaitBot.check_article *)

UpperCase == <<"A", "B", "C", "D", "E", "F", "G", "H", "I", "J", "K", "L", "M",
               "N", "O", "P", "Q", "R", "S", "T", "U", "V", "W", "X", "Y", "Z">>
LowerCase == <<"a", "b", "c", "d", "e", "f", "g", "h", "i", "j", "k", "l", "m",
               "n", "o", "p", "q", "r", "s", "t", "u", "v", "w", "x", "y", "z">>

LowerChar(c) ==
    IF \E i \in 1..Len(UpperCase) : UpperCase[i] = c
    THEN LowerCase[CHOOSE i \in 1..Len(UpperCase) : UpperCase[i] = c]
    ELSE c

\* str.lower()
Lower(s) == [i \in 1..Len(s) |-> LowerChar(s[i])]

\* s.startswith(p)
StartsWith(s, p) == Len(s) >= Len(p) /\ \A j \in 1..Len(p) : s[j] = p[j]

\* p in s
Contains(s, p) ==
    \E i \in 1..(Len(s) - Len(p) + 1) : \A j \in 1..Len(p) : s[i + j - 1] = p[j]

MIN_LENGTH == 400
MAX_LENGTH == 2000

STR_twitter == Chars("twitter")
STR_greep == Chars("greep uit de reacties")
STR_scoreverloop == Chars("scoreverloop")
STR_de11 == Chars("de 11")
STR_opstelling == Chars("opstelling")

\* a length test that rejects an article of exactly 400 characters
TooShortInclusive(n) == n <= MIN_LENGTH

\* article_length < 400
TooShort(n) == n < MIN_LENGTH

\* article_length > 2000
TooLong(n) == n > MAX_LENGTH

\* a line-up test on the title as written, not lowercased
LineUpCaseSensitive(t) ==
    StartsWith(t, STR_de11) \/ StartsWith(t, STR_opstelling)

\* title.lower().startswith(('de 11', 'opstelling'))
LineUp(t) ==
    StartsWith(Lower(t), STR_de11) \/ StartsWith(Lower(t), STR_opstelling)

\* the rules of check_article, in the order of the code; the value returned
\* and the message logged
check_article(v, t, p, b) ==
    LET txt == Join(<<SP>>, b)
        article_length == Len(p) + Len(txt)
    IN  IF TooShort(article_length)
            THEN [is_valid |-> FALSE, log |-> "Article too short"]
        ELSE IF TooLong(article_length)
            THEN [is_valid |-> FALSE, log |-> "Article too long"]
        ELSE IF v = "pkg"
                /\ (Contains(Lower(t), STR_twitter) \/ Contains(Lower(txt), STR_greep))
            THEN [is_valid |-> FALSE, log |-> "Tweets"]
        ELSE IF v = "legacy" /\ Contains(Lower(txt), STR_greep)
            THEN [is_valid |-> FALSE, log |-> "Tweets"]
        ELSE IF v = "legacy" /\ Contains(Lower(txt), STR_scoreverloop)
            THEN [is_valid |-> FALSE, log |-> "Match report"]
        ELSE IF LineUp(t)
            THEN [is_valid |-> FALSE, log |-> "Line-up"]
        ELSE [is_valid |-> TRUE, log |-> ""]

\* the call of check_article on the scraped article
CheckArticle ==
    /\ cpc = "call"
    /\ is_valid' = check_article(variant, title, preface, body).is_valid
    /\ log' = check_article(variant, title, preface, body).log
    /\ cpc' = "done"
    /\ UNCHANGED <<variant, articleVars, wrapVars, attrVars, capVars, imgVars, runVars>>

\* parse_text not called
IdleWrap ==
    /\ text = <<>> /\ font = <<>> /\ word_list = <<>> /\ word_idx = 0
    /\ sentence_width = 0 /\ it = 0 /\ parsed_text = <<>> /\ wpc = "idle"

\* n characters of running text
Fill(n) == [i \in 1..n |-> "x"]

\* the titles classified: "De 11 X", "Opstelling", "PSV wint", "Op Twitter",
\* "Zo de 11"
ClassifierTitles ==
    { Chars("De 11 X"),
      Chars("Opstelling"),
      Chars("PSV wint"),
      Chars("Op Twitter"),
      Chars("Zo de 11") }

\* the paragraphs of the bodies classified: running text of several lengths,
\* "Greep uit de Reacties" and "Scoreverloop"
ClassifierParagraphs ==
    { Fill(MIN_LENGTH \div 2 - 1), Fill(MIN_LENGTH \div 2),
      Fill(MAX_LENGTH - MIN_LENGTH \div 2),
      Chars("Greep uit de Reacties"),
      Chars("Scoreverloop") }

ClassifierPrefaces == { Fill(0), Fill(MIN_LENGTH \div 2 - 1), Fill(MIN_LENGTH \div 2) }

InitClassify ==
    /\ variant \in {"pkg", "legacy"}
    /\ CUSTOM_URL = <<>>
    /\ DEV = FALSE
    /\ IdleImage
    /\ IdleRun
    /\ IdleWrap
    /\ IdleResolver
    /\ IdleComposer
    /\ title \in ClassifierTitles
    /\ preface \in ClassifierPrefaces
    /\ body \in SeqsUpTo(ClassifierParagraphs, MaxParagraphs) \ {<<>>}
    /\ is_valid = FALSE
    /\ log = ""
    /\ cpc = "call"

NextClassify == CheckArticle

SpecClassify == InitClassify /\ [][NextClassify]_vars

-----------------------------------------------------------------------------
(* Article.get_source_url / ClickbaitBot.get_source_url *)

\* the journalists dict, in its order: name, handle
journalists ==
    << <<Chars("Rik Elfrink"), Chars("@RikElfrink")>>,
       <<Chars("Mike Verweij"), Chars("@MikeVerweij")>>,
       <<Chars("Krabbendam"), Chars("@Mkrabby")>>,
       <<Chars("Fabrizio Romano"), Chars("@FabrizioRomano")>> >>

\* the sources dict, in its order: name, handle
sources ==
    << <<Chars("Algemeen Dagblad"), Chars("@ADnl")>>,
       <<Chars("Voetbal International"), Chars("@VI_nl")>>,
       <<Chars("Telegraaf"), Chars("@telegraaf")>>,
       <<Chars("Eindhovens Dagblad"), Chars("@ED_Regio")>>,
       <<Chars("ESPN"), Chars("@ESPNnl")>>,
       <<Chars("Parool"), Chars("@parool")>>,
       <<Chars("RTV Rijnmond"), Chars("@RTV_Rijnmond")>>,
       <<Chars("De Gelderlander"), Chars("@DeGelderlander")>>,
       <<Chars("NOS"), Chars("@NOSsport")>>,
       <<Chars("NU.nl"), Chars("NUnl")>>,
       <<Chars("NRC"), Chars("@nrc")>> >>

\* the websites list of the earlier variant
websites ==
    << Chars("Algemeen Dagblad"), Chars("Voetbal International"),
       Chars("Telegraaf"), Chars("Eindhovens Dagblad"), Chars("Fox Sports") >>

QUOTE_WORDS == 32
MIN_QUOTE_WORDS == 10
LEGACY_MIN_QUOTE_CHARS == 25
LEGACY_QUOTE_CHARS == 500

DQ == "\""
\* the memo glyph '\U0001f4dd', one character
MEMO == "U+1F4DD"

\* the first result's link
LINK == Chars("https://ad.nl/1")

RECURSIVE FoundFrom(_, _, _)
\* [w for w in table.keys() if w in txt], as places in the table
FoundFrom(table, txt, i) ==
    IF i > Len(table) THEN <<>>
    ELSE (IF Contains(txt, table[i][1]) THEN <<i>> ELSE <<>>)
            \o FoundFrom(table, txt, i + 1)

Found(table, txt) == FoundFrom(table, txt, 1)

\* the last name found instead of the first
PickLast(found) == found[Len(found)]

\* journalists_found[0], sources_found[0]
Pick(found) == found[1]

\* ' '.join([self.title, self.preface, self.text])
FullText(t, p, b) == Join(<<SP>>, <<t, p, Join(<<SP>>, b)>>)

\* the place of the first character c of s at or after i, 0 when there is none
NextChar(s, c, i) ==
    IF \E j \in i..Len(s) : s[j] = c
    THEN CHOOSE j \in i..Len(s) : s[j] = c /\ \A k \in i..(j - 1) : s[k] # c
    ELSE 0

RECURSIVE FindQuotesFrom(_, _)
\* re.findall(r'"([^"]+)"', s), scanning from place i
FindQuotesFrom(s, i) ==
    LET open == NextChar(s, DQ, i)
        close == IF open = 0 THEN 0 ELSE NextChar(s, DQ, open + 1)
    IN  IF open = 0 \/ close = 0 THEN <<>>
        ELSE IF close = open + 1 THEN FindQuotesFrom(s, open + 1)
        ELSE <<SubSeq(s, open + 1, close - 1)>> \o FindQuotesFrom(s, close + 1)

FindQuotes(s) == FindQuotesFrom(s, 1)

\* l[:n]
FirstN(l, n) == SubSeq(l, 1, IF Len(l) < n THEN Len(l) ELSE n)

\* the value returned when no quote gave a link: None, as the earlier variant does
FallbackNone(found) == None

\* return sources[sources_found[0]]
Fallback(found) == Str(sources[Pick(found)][2])

\* what the search collaborator does with a query: it answers with items,
\* answers without items, or the request or its decoding raises
SearchOutcomes == {"items", "no items", "raises"}

\* get_source_url up to its loop: the journalists, the sources, the quotes
GetSourceUrlStart ==
    /\ apc = "start" /\ variant = "pkg"
    /\ LET txt == FullText(title, preface, body)
           journalists_found == Found(journalists, txt)
           sources_found == Found(sources, txt)
           qs == FindQuotes(Join(<<SP>>, body))
       IN  IF journalists_found # <<>>
           THEN /\ source_url' = Str(journalists[Pick(journalists_found)][2])
                /\ apc' = "done"
                /\ UNCHANGED <<quotes, qi>>
           ELSE IF sources_found = <<>> \/ qs = <<>>
           THEN /\ source_url' = None
                /\ apc' = "done"
                /\ UNCHANGED <<quotes, qi>>
           ELSE /\ quotes' = qs
                /\ qi' = 0
                /\ apc' = "loop"
                /\ UNCHANGED source_url
    /\ UNCHANGED <<searches, errors, variant, articleVars, clsVars, wrapVars, capVars, imgVars, runVars>>

\* one pass of `for quote in quotes`, or the return after the loop
GetSourceUrlQuote ==
    /\ apc = "loop"
    /\ IF qi >= Len(quotes)
       THEN /\ source_url' = Fallback(Found(sources, FullText(title, preface, body)))
            /\ apc' = "done"
            /\ UNCHANGED <<qi, searches>>
       ELSE LET quote_words == FirstN(Split(quotes[qi + 1]), QUOTE_WORDS)
                query == <<DQ>> \o Join(<<SP>>, quote_words) \o <<DQ>>
            IN  IF Len(quote_words) < MIN_QUOTE_WORDS
                THEN /\ qi' = qi + 1
                     /\ UNCHANGED <<source_url, searches, apc>>
                ELSE \E outcome \in SearchOutcomes :
                        /\ searches' = Append(searches, [q |-> query, outcome |-> outcome])
                        /\ qi' = qi + 1
                        /\ CASE outcome = "items" ->
                                    source_url' = Str(LINK) /\ apc' = "done"
                             [] outcome = "no items" ->
                                    UNCHANGED <<source_url, apc>>
                             [] outcome = "raises" ->
                                    apc' = "raised" /\ UNCHANGED source_url
    /\ UNCHANGED <<quotes, errors, variant, articleVars, clsVars, wrapVars, capVars, imgVars, runVars>>

\* what the earlier variant's search gives: as above, and the first item may be
\* dated today, be dated earlier, or carry no date (the lookup of it raises)
LegacySearchOutcomes ==
    {"items today", "items earlier", "items undated", "no items", "raises"}

\* the earlier get_source_url, whole: one quote, one search inside try/except
GetSourceUrlLegacy ==
    /\ apc = "start" /\ variant = "legacy"
    /\ LET txt == Concat(body)
           close == NextChar(txt, DQ, NextChar(txt, DQ, 1) + 1)
           quote == SubSeq(txt, NextChar(txt, DQ, 1) + 1,
                           IF close = 0 THEN Len(txt) ELSE close - 1)
       IN  IF (\A i \in 1..Len(websites) : ~Contains(txt, websites[i]))
              \/ NextChar(txt, DQ, 1) = 0
           THEN source_url' = None /\ UNCHANGED <<searches, errors>>
           ELSE IF Len(quote) > LEGACY_MIN_QUOTE_CHARS
           THEN \E outcome \in LegacySearchOutcomes :
                   /\ searches' = Append(searches,
                                         [q |-> FirstN(quote, LEGACY_QUOTE_CHARS),
                                          outcome |-> outcome])
                   /\ source_url' = IF outcome = "items today"
                                    THEN Str(<<MEMO, SP>> \o LINK) ELSE None
                   /\ errors' = IF outcome \in {"raises", "items undated"}
                                THEN errors + 1 ELSE errors
           ELSE source_url' = None /\ UNCHANGED <<searches, errors>>
    /\ apc' = "done"
    /\ UNCHANGED <<quotes, qi, variant, articleVars, clsVars, wrapVars, capVars, imgVars, runVars>>

\* the titles, prefaces and paragraphs of the articles resolved
ResolverTitles == { Chars("PSV wint"), Chars("Krabbendam: PSV wint") }

ResolverPrefaces == { Chars("x"), Chars("Volgens NOS en ESPN") }

ResolverParagraphs ==
    { Chars("x"),
      Chars("Mike Verweij meldt"),
      Chars("Rik Elfrink"),
      Chars("De Telegraaf"),
      Chars("NOS en ESPN"),
      Chars("\"kort citaat\""),
      Chars("\"aa bb cc dd ee ff gg hh ii jj\" en \"\""),
      Chars("\"a b c d e f g h i j k l m n o p q r s t u v w x y z a b c d e f g\"") }

InitResolve ==
    /\ variant \in {"pkg", "legacy"}
    /\ CUSTOM_URL = <<>>
    /\ DEV = FALSE
    /\ IdleImage
    /\ IdleRun
    /\ IdleWrap
    /\ IdleClassifier
    /\ IdleComposer
    /\ title \in ResolverTitles
    /\ preface \in ResolverPrefaces
    /\ body \in SeqsUpTo(ResolverParagraphs, MaxParagraphs) \ {<<>>}
    /\ source_url = None /\ quotes = <<>> /\ qi = 0
    /\ searches = <<>> /\ errors = 0
    /\ apc = "start"

NextResolve == GetSourceUrlStart \/ GetSourceUrlQuote \/ GetSourceUrlLegacy

SpecResolve == InitResolve /\ [][NextResolve]_vars

-----------------------------------------------------------------------------
(* Tweet.create_tweet / ClickbaitBot.create_tweet_text *)

\* the characters '\u00df' (sharp s), '\u2018' and '\u2019' (curly quotes)
ESZETT == "U+00DF"
LSQUO == "U+2018"
RSQUO == "U+2019"

\* str.casefold() of one character: lowercase, and the sharp s becomes "ss"
CasefoldChar(c) == IF c = ESZETT THEN <<"s", "s">> ELSE <<LowerChar(c)>>

\* str.casefold()
Casefold(s) == Concat([i \in 1..Len(s) |-> CasefoldChar(s[i])])

\* s.find(p): the 0-based place of the first occurrence of p in s, or -1
Find(s, p) ==
    IF Contains(s, p)
    THEN (CHOOSE i \in 1..(Len(s) - Len(p) + 1) :
             /\ \A j \in 1..Len(p) : s[i + j - 1] = p[j]
             /\ \A k \in 1..(i - 1) : \E j \in 1..Len(p) : s[k + j - 1] # p[j]) - 1
    ELSE -1

\* s[:i] and s[i:], i >= 0
Upto(s, i) == SubSeq(s, 1, IF i > Len(s) THEN Len(s) ELSE i)
From(s, i) == SubSeq(s, (IF i > Len(s) THEN Len(s) ELSE i) + 1, Len(s))

\* keyword in hashtag_dict, hashtag_dict[keyword]
InDict(d, k) == \E i \in 1..Len(d) : d[i][1] = k
Lookup(d, k) == d[CHOOSE i \in 1..Len(d) : d[i][1] = k][2]

\* tweet[:keyword_idx] + '#' + tweet[keyword_idx:]
Splice(s, idx) == Upto(s, idx) \o <<"#">> \o From(s, idx)

\* any(keyword in tweet for keyword in keyword.split())
AnyWordIn(k, s) == \E i \in 1..Len(Split(k)) : Contains(s, Split(k)[i])

OpeningQuotes == {"'", DQ, LSQUO}
ClosingQuotes == {"'", DQ, RSQUO}

\* the title put between quotes if it is not already
Quoted(v, t) ==
    IF v = "pkg"
    THEN (IF \/ ~(t # <<>> /\ t[1] \in OpeningQuotes)
             \/ ~(t # <<>> /\ t[Len(t)] \in ClosingQuotes)
          THEN <<"'">> \o t \o <<"'">> ELSE t)
    ELSE (IF t[1] \notin {"'", DQ} THEN <<"'">> \o t \o <<"'">> ELSE t)

RECURSIVE AddHashtags(_, _, _, _, _)
\* the loop over the keywords: the working title and the list below it
AddHashtags(v, d, t, kws, kl) ==
    IF kws = <<>> THEN [tweet |-> t, keyword_list |-> kl]
    ELSE LET keyword == Head(kws)
             keyword_idx == Find(Casefold(t), Casefold(keyword))
         IN  IF InDict(d, keyword)
             THEN IF Len(Split(keyword)) = 1 /\ keyword_idx # -1
                  THEN AddHashtags(v, d, Splice(t, keyword_idx), Tail(kws), kl)
                  ELSE AddHashtags(v, d, t, Tail(kws),
                           Append(kl, IF v = "pkg" THEN Lookup(d, keyword)
                                      ELSE <<"#">> \o Lookup(d, keyword)))
             ELSE IF ~AnyWordIn(keyword, t)
                  THEN AddHashtags(v, d, t, Tail(kws), Append(kl, keyword))
                  ELSE AddHashtags(v, d, t, Tail(kws), kl)

\* the paragraphs after the title: the source, the list in parentheses
Paragraphs(v, src, kl) ==
    (IF src.is_none \/ src.str = <<>> THEN <<>>
     ELSE <<NL, NL>> \o (IF v = "pkg" THEN <<MEMO, SP>> ELSE <<>>) \o src.str)
    \o (IF kl = <<>> THEN <<>>
        ELSE <<NL, NL>> \o <<"(">> \o Join(<<",", SP>>, kl) \o <<")">>)

\* create_tweet: the packaged code quotes the title and then adds the
\* hashtags; the earlier code adds the hashtags and then quotes the title
create_tweet(v, d, t, kws, src) ==
    LET r == IF v = "pkg"
             THEN AddHashtags(v, d, Quoted(v, t), kws, <<>>)
             ELSE LET h == AddHashtags(v, d, t, kws, <<>>)
                  IN  [tweet |-> Quoted(v, h.tweet), keyword_list |-> h.keyword_list]
    IN  [tweet |-> r.tweet \o Paragraphs(v, src, r.keyword_list),
         keyword_list |-> r.keyword_list]

\* Tweet.__init__ (self.tweet = self.create_tweet()); the earlier code's
\* create_tweet_text, once the get_source_url it calls has returned
CreateTweet ==
    /\ tpc = "call" /\ apc = "done"
    /\ tweet' = create_tweet(variant, hashtag_dict, title, keywords, source_url).tweet
    /\ keyword_list' =
          create_tweet(variant, hashtag_dict, title, keywords, source_url).keyword_list
    /\ tpc' = "done"
    /\ UNCHANGED <<keywords, hashtag_dict, variant, articleVars, clsVars, attrVars,
                   wrapVars, imgVars, runVars>>

\* hashtags.json: the packaged code lists the value as it is, the earlier
\* code puts '#' before it
Hashtags(v) ==
    LET h == IF v = "pkg" THEN <<"#">> ELSE <<>>
    IN  << <<Chars("PSV"), h \o Chars("PSV")>>,
           <<Chars("AZ"), h \o Chars("AZ")>>,
           <<Chars("Mazraoui"), h \o Chars("Mazraoui")>>,
           <<Chars("Ajax"), h \o Chars("Ajax")>>,
           <<Chars("Jong PSV"), h \o Chars("JongPSV")>>,
           <<Chars("Eredivisie"), h \o Chars("Eredivisie")>> >>

ComposerTitles ==
    { Chars("PSV wint"), Chars("Mazraoui naar AZ"), Chars("Gro") \o <<ESZETT>> \o Chars(" naar Ajax"),
      Chars("'Jong PSV wint'") }

ComposerKeywords ==
    { Chars("PSV"), Chars("AZ"), Chars("Mazraoui"), Chars("Ajax"),
      Chars("Jong PSV"), Chars("Eredivisie"), Chars("transfer"), Chars("naar") }

ComposerBodies ==
    { <<Chars("x")>>,
      <<Chars("De Telegraaf: \"aa bb cc dd ee ff gg hh ii jj\"")>> }

InitCompose ==
    /\ variant \in {"pkg", "legacy"}
    /\ CUSTOM_URL = <<>>
    /\ DEV = FALSE
    /\ IdleImage
    /\ IdleRun
    /\ IdleWrap
    /\ IdleClassifier
    /\ title \in ComposerTitles
    /\ preface = Chars("x")
    /\ body \in ComposerBodies
    /\ keywords \in SeqsUpTo(ComposerKeywords, MaxKeywords)
    /\ hashtag_dict = Hashtags(variant)
    /\ quotes = <<>> /\ qi = 0 /\ searches = <<>> /\ errors = 0
    /\ IF variant = "pkg"
       THEN /\ source_url \in {None, Str(Chars("@telegraaf")), Str(LINK)}
            /\ apc = "done"
       ELSE /\ source_url = None
            /\ apc = "start"
    /\ tweet = <<>> /\ keyword_list = <<>>
    /\ tpc = "call"

NextCompose == GetSourceUrlLegacy \/ CreateTweet

SpecCompose == InitCompose /\ [][NextCompose]_vars

-----------------------------------------------------------------------------
(* TextImage.__init__ and draw_image / ClickbaitBot.draw_image *)

TITLE_PAD == 16
PREFACE_PAD == 32
BODY_PAD == 32
TITLE_SIZE == 44
PREFACE_SIZE == 38
BODY_SIZE == 34

\* text.count(c)
Count(s, c) == Cardinality({i \in DOMAIN s : s[i] = c})

\* get_sentences: 1 + text.count('\n')
get_sentences(t) == 1 + Count(t, NL)

\* get_text_height: the height the drawing library measures, taken as the
\* lines of the text times the size of the font, nothing for no text
get_text_height(t, size) == IF t = <<>> THEN 0 ELSE get_sentences(t) * size

\* body_parsed: '\n\n'.join(body_parsed) in the packaged code; the earlier code
\* strips each paragraph, appends '\n', joins with '\n' and strips
JoinBody(v, bl) ==
    IF v = "pkg" THEN Join(<<NL, NL>>, bl)
    ELSE Strip(Join(<<NL>>, [i \in DOMAIN bl |-> Append(Strip(bl[i]), NL)]))

\* the heights TextImage.__init__ measures before it calls draw_image
MeasuredHeights(tp, pp, bp) ==
    [title |-> get_text_height(tp, TITLE_SIZE),
     preface |-> get_text_height(pp, PREFACE_SIZE),
     body |-> get_text_height(bp, BODY_SIZE)]

\* the preface drawn right below the title, its own height left out of what
\* follows
draw_image_flat(v, h, tp, pp, bp) ==
    [saved |-> TRUE, title_height |-> h.title, preface_height |-> h.preface,
     body_height |-> h.body, y_title |-> 16, y_preface |-> 16 + h.title,
     y_body |-> 16 + h.title + 32, band |-> h.title,
     height |-> 16 + h.title + 64 + h.body]

\* the offsets and the height draw_image computes, and the image it saves: the
\* packaged code from the heights measured, the earlier code from the lines
\* of the texts
draw_image(v, h, tp, pp, bp) ==
    IF v = "pkg"
    THEN LET title_height == h.title
             preface_height == h.preface
             body_height == h.body
             y_title == TITLE_PAD
             y_preface == y_title + title_height + PREFACE_PAD
             y_body == y_preface + preface_height + BODY_PAD
             img_height == y_body + body_height + BODY_PAD
         IN  [saved |-> TRUE, title_height |-> title_height,
              preface_height |-> preface_height, body_height |-> body_height,
              y_title |-> y_title, y_preface |-> y_preface, y_body |-> y_body,
              band |-> y_preface - TITLE_PAD, height |-> img_height]
    ELSE LET height_header == 30 + 50 * get_sentences(tp)
             height_preface == height_header + 15
             height_body == 10 + height_preface + get_sentences(pp) * 36
             height_image == 85 + height_body + get_sentences(bp) * 36
         IN  [saved |-> TRUE, title_height |-> 50 * get_sentences(tp),
              preface_height |-> get_sentences(pp) * 36,
              body_height |-> get_sentences(bp) * 36,
              y_title |-> 16, y_preface |-> height_preface,
              y_body |-> height_body + 45,
              band |-> height_header, height |-> height_image]

\* the widths a font gives a word of the page: half the wrap width, and one
\* pixel more than the wrap width
PageWidths(v) == {max_width(v) \div 2, max_width(v) + 1}

\* a call of parse_text(t, font): every word of the text as wide as the next
BeginParse(t) ==
    /\ text' = t
    /\ \E x \in PageWidths(variant) : font' = [w \in Range(InitialWordList(t)) |-> x]
    /\ word_list' = InitialWordList(t)
    /\ word_idx' = 0
    /\ sentence_width' = 0
    /\ it' = 0
    /\ parsed_text' = <<>>
    /\ wpc' = "loop"

\* parse_text returned: its value is kept and the next text is wrapped
ImageNext ==
    /\ rpc = "image" /\ wpc = "done"
    /\ ipc \in {"title", "preface", "body"}
    /\ \/ /\ ipc = "title"
          /\ title_parsed' = parsed_text
          /\ ipc' = "preface"
          /\ BeginParse(preface)
          /\ UNCHANGED <<bi, preface_parsed, body_list>>
       \/ /\ ipc = "preface"
          /\ preface_parsed' = parsed_text
          /\ IF body = <<>>
             THEN ipc' = "draw" /\ UNCHANGED <<bi, wrapVars>>
             ELSE ipc' = "body" /\ bi' = 1 /\ BeginParse(body[1])
          /\ UNCHANGED <<title_parsed, body_list>>
       \/ /\ ipc = "body"
          /\ body_list' = Append(body_list, parsed_text)
          /\ IF bi < Len(body)
             THEN bi' = bi + 1 /\ BeginParse(body[bi + 1]) /\ UNCHANGED ipc
             ELSE ipc' = "draw" /\ UNCHANGED <<bi, wrapVars>>
          /\ UNCHANGED <<title_parsed, preface_parsed>>
    /\ UNCHANGED <<heights, img, variant, articleVars, clsVars, attrVars, capVars, runVars>>

\* the three calls of get_text_height in TextImage.__init__
MeasureHeights ==
    /\ rpc = "image" /\ variant = "pkg" /\ ipc = "draw"
    /\ heights' = MeasuredHeights(title_parsed, preface_parsed,
                                  JoinBody(variant, body_list))
    /\ ipc' = "measured"
    /\ UNCHANGED <<bi, title_parsed, preface_parsed, body_list, img, variant,
                   articleVars, clsVars, attrVars, wrapVars, capVars, runVars>>

\* draw_image: the image is written; the packaged code builds the Tweet next,
\* the earlier code calls tweet_image
DrawImage ==
    /\ rpc = "image"
    /\ ipc = (IF variant = "pkg" THEN "measured" ELSE "draw")
    /\ img' = draw_image(variant, heights, title_parsed, preface_parsed,
                         JoinBody(variant, body_list))
    /\ ipc' = "done"
    /\ IF variant = "pkg"
       THEN rpc' = "tweet" /\ tpc' = "call"
       ELSE rpc' = "send" /\ UNCHANGED tpc
    /\ UNCHANGED <<bi, title_parsed, preface_parsed, body_list, heights, variant,
                   articleVars, clsVars, attrVars, wrapVars, keywords, hashtag_dict,
                   tweet, keyword_list, run, CUSTOM_URL, DEV, url, new_article,
                   saved_url, marker_before, checked, fetched, sent, published,
                   published_before, printed, raised>>

\* a wrapped text of k lines, the empty text for none
BlockText(k) == Join(<<NL>>, [i \in 1..k |-> <<"a">>])

\* the wrapped texts laid out
BlockTexts == {BlockText(k) : k \in 0..MaxLines}

\* draw_image about to be called: in the packaged code with any heights
\* measured, in the earlier code with any wrapped texts
InitLayout ==
    /\ variant \in {"pkg", "legacy"}
    /\ CUSTOM_URL = <<>>
    /\ DEV = FALSE
    /\ NoArticle
    /\ IdleWrap
    /\ IdleClassifier
    /\ IdleResolver
    /\ IdleComposer
    /\ run = 0 /\ url = <<>>
    /\ new_article = TRUE /\ saved_url = NoFile /\ marker_before = NoFile
    /\ checked = <<>> /\ fetched = 0 /\ sent = 0 /\ published = 0
    /\ published_before = 0 /\ printed = FALSE /\ raised = ""
    /\ rpc = "image"
    /\ bi = 0 /\ img = NoImage
    /\ title_parsed \in BlockTexts
    /\ preface_parsed \in BlockTexts
    /\ IF variant = "pkg"
       THEN /\ body_list = <<BlockText(1)>>
            /\ heights \in [title : 0..MaxHeight, preface : 0..MaxHeight,
                             body : 0..MaxHeight]
            /\ ipc = "measured"
       ELSE /\ body_list \in SeqsUpTo(BlockTexts, MaxParagraphs) \ {<<>>}
            /\ heights = NoHeights
            /\ ipc = "draw"

NextLayout == DrawImage

SpecLayout == InitLayout /\ [][NextLayout]_vars

-----------------------------------------------------------------------------
(* __main__, Article.__init__ / ClickbaitBot.main *)

\* unidecode.unidecode(url)
UnidecodeChar(c) == IF c = ESZETT THEN <<"s", "s">> ELSE <<c>>
Unidecode(s) == Concat([i \in DOMAIN s |-> UnidecodeChar(s[i])])

\* the urls of the last tweet of the account followed
TweetedUrls == { Chars("sn/a"), Chars("sn/stra") \o <<ESZETT>> \o Chars("e") }

\* the urls given as CUSTOM_URL / TEST_URL
CustomUrls == { Chars("sn/c") }

\* the pages scraped: an article of running text, a line-up, an article
\* quoting a newspaper
Articles ==
    { [title |-> Chars("PSV wint"), preface |-> Fill(MIN_LENGTH \div 2),
       body |-> <<Fill(MIN_LENGTH \div 2)>>, keywords |-> <<Chars("PSV")>>],
      [title |-> Chars("Opstelling"), preface |-> Fill(MIN_LENGTH \div 2),
       body |-> <<Fill(MIN_LENGTH \div 2)>>, keywords |-> <<Chars("Ajax")>>],
      [title |-> Chars("AZ wint"), preface |-> Fill(MIN_LENGTH \div 2),
       body |-> <<Chars("De Telegraaf: \"aa bb cc dd ee ff gg hh ii jj\""),
                  Fill(MIN_LENGTH \div 2)>>,
       keywords |-> <<Chars("AZ")>>] }

\* a store that keeps the url it saw first: SAVE_FILE is written only when
\* it does not exist
KeepFirstUrl(saved, u) ==
    IF ~saved.exists
    THEN [new_article |-> TRUE, saved_url |-> [exists |-> TRUE, url |-> u]]
    ELSE [new_article |-> u # saved.url, saved_url |-> saved]

\* check_new_url / check_new_article_url with SAVE_FILE as it is: the value
\* returned and SAVE_FILE afterwards
check_new_url(saved, u) ==
    IF ~saved.exists
    THEN [new_article |-> TRUE, saved_url |-> [exists |-> TRUE, url |-> u]]
    ELSE IF u = saved.url
         THEN [new_article |-> FALSE, saved_url |-> saved]
         ELSE [new_article |-> TRUE, saved_url |-> [exists |-> TRUE, url |-> u]]

\* the program is started
StartRun ==
    /\ rpc \in {"idle", "finished", "aborted"}
    /\ run < MaxRuns
    /\ run' = run + 1
    /\ marker_before' = saved_url
    /\ published_before' = published
    /\ url' = <<>> /\ new_article' = FALSE /\ fetched' = 0 /\ sent' = 0
    /\ printed' = FALSE /\ raised' = ""
    /\ title' = <<>> /\ preface' = <<>> /\ body' = <<>>
    /\ is_valid' = FALSE /\ log' = "" /\ cpc' = "idle"
    /\ source_url' = None /\ quotes' = <<>> /\ qi' = 0 /\ searches' = <<>>
    /\ errors' = 0 /\ apc' = "idle"
    /\ keywords' = <<>> /\ hashtag_dict' = <<>> /\ tweet' = <<>>
    /\ keyword_list' = <<>> /\ tpc' = "idle"
    /\ text' = <<>> /\ font' = <<>> /\ word_list' = <<>> /\ word_idx' = 0
    /\ sentence_width' = 0 /\ it' = 0 /\ parsed_text' = <<>> /\ wpc' = "idle"
    /\ ipc' = "idle" /\ bi' = 0 /\ title_parsed' = <<>> /\ preface_parsed' = <<>>
    /\ heights' = NoHeights
    /\ body_list' = <<>>
    /\ rpc' = "init"
    /\ UNCHANGED <<variant, CUSTOM_URL, DEV, saved_url, published, checked, img>>

\* Article.__init__ with a url / main with a test_url: the article is new
UseCustomUrl ==
    /\ rpc = "init" /\ CUSTOM_URL # <<>>
    /\ url' = CUSTOM_URL
    /\ new_article' = TRUE
    /\ rpc' = "checked"
    /\ UNCHANGED <<variant, wrapVars, clsVars, attrVars, imgVars, tweet, keyword_list,
                   tpc, run, CUSTOM_URL, DEV, marker_before, published_before>>
    /\ UNCHANGED <<articleVars, keywords, hashtag_dict, saved_url, checked, fetched,
                   sent, published, printed, raised>>

\* retrieve_url: the url of the last tweet, or the request raises
RetrieveUrl ==
    /\ rpc = "init" /\ CUSTOM_URL = <<>>
    /\ \/ \E u \in TweetedUrls :
             /\ url' = Unidecode(u)
             /\ rpc' = "retrieved"
             /\ UNCHANGED raised
       \/ /\ raised' = "TweepError"
          /\ rpc' = "aborted"
          /\ UNCHANGED url
    /\ UNCHANGED <<variant, wrapVars, clsVars, attrVars, imgVars, tweet, keyword_list,
                   tpc, run, CUSTOM_URL, DEV, marker_before, published_before>>
    /\ UNCHANGED <<articleVars, keywords, hashtag_dict, new_article, saved_url,
                   checked, fetched, sent, published, printed>>

\* self.new_article = self.check_new_url()
CheckNewUrl ==
    /\ rpc = "retrieved"
    /\ new_article' = check_new_url(saved_url, url).new_article
    /\ saved_url' = check_new_url(saved_url, url).saved_url
    /\ checked' = Append(checked, [url |-> url, new_article |-> new_article'])
    /\ rpc' = "checked"
    /\ UNCHANGED <<variant, wrapVars, clsVars, attrVars, imgVars, tweet, keyword_list,
                   tpc, run, CUSTOM_URL, DEV, marker_before, published_before>>
    /\ UNCHANGED <<articleVars, keywords, hashtag_dict, url, fetched, sent,
                   published, printed, raised>>

\* the urls check_new_url is called with, one call after the other
StoreUrls == { Chars("sn/a"), Chars("sn/b"), Chars("sn/c") }

\* the next call of check_new_url, with any url
NextUrl ==
    /\ rpc = "checked"
    /\ Len(checked) < MaxCalls
    /\ url' \in StoreUrls
    /\ rpc' = "retrieved"
    /\ UNCHANGED <<variant, wrapVars, articleVars, clsVars, attrVars, capVars, imgVars,
                   run, CUSTOM_URL, DEV, new_article, saved_url, marker_before,
                   checked, fetched, sent, published, published_before, printed,
                   raised>>

InitStore ==
    /\ variant \in {"pkg", "legacy"}
    /\ CUSTOM_URL = <<>>
    /\ DEV = FALSE
    /\ NoArticle
    /\ IdleWrap
    /\ IdleClassifier
    /\ IdleResolver
    /\ IdleComposer
    /\ IdleImage
    /\ run = 0 /\ new_article = FALSE /\ saved_url = NoFile /\ marker_before = NoFile
    /\ checked = <<>> /\ fetched = 0 /\ sent = 0 /\ published = 0
    /\ published_before = 0 /\ printed = FALSE /\ raised = ""
    /\ url \in StoreUrls
    /\ rpc = "retrieved"

NextStore == CheckNewUrl \/ NextUrl

SpecStore == InitStore /\ [][NextStore]_vars

\* the page fetched whatever check_new_url returned
FetchesAlways == TRUE

\* whether the page is fetched: `if self.new_article` / `if new_article or DEV`
Fetches == new_article \/ (variant = "legacy" /\ DEV)

\* get_article_soup and the parse_ methods / scrape_article: the article, or
\* the request or a parse raises
Scrape ==
    /\ rpc = "checked" /\ Fetches
    /\ fetched' = fetched + 1
    /\ \/ \E a \in Articles :
             /\ title' = a.title /\ preface' = a.preface /\ body' = a.body
             /\ keywords' = a.keywords
             /\ hashtag_dict' = Hashtags(variant)
             /\ rpc' = "article"
             /\ cpc' = "call"
             /\ UNCHANGED raised
       \/ /\ raised' \in {"ConnectionError", "AttributeError"}
          /\ rpc' = "aborted"
          /\ UNCHANGED <<articleVars, keywords, hashtag_dict, cpc>>
    /\ UNCHANGED <<variant, wrapVars, is_valid, log, attrVars, imgVars, tweet,
                   keyword_list, tpc, run, CUSTOM_URL, DEV, marker_before,
                   published_before, url, new_article, saved_url, checked, sent,
                   published, printed>>

\* the url is the saved one: nothing is fetched and the run ends
NoNewArticle ==
    /\ rpc = "checked" /\ ~Fetches
    /\ rpc' = "finished"
    /\ UNCHANGED <<variant, wrapVars, articleVars, clsVars, attrVars, capVars, imgVars,
                   run, CUSTOM_URL, DEV, url, new_article, saved_url, marker_before,
                   checked, fetched, sent, published, published_before, printed,
                   raised>>

\* self.source_url = self.get_source_url(), called whatever check_article said
CallGetSourceUrl ==
    /\ rpc = "article" /\ variant = "pkg" /\ cpc = "done" /\ apc = "idle"
    /\ apc' = "start"
    /\ UNCHANGED <<source_url, quotes, qi, searches, errors, variant, wrapVars,
                   articleVars, clsVars, capVars, imgVars, runVars>>

\* the search raised inside get_source_url: nothing catches it
SearchAbort ==
    /\ rpc = "article" /\ apc = "raised"
    /\ raised' = "RequestException"
    /\ rpc' = "aborted"
    /\ UNCHANGED <<variant, wrapVars, articleVars, clsVars, attrVars, capVars, imgVars,
                   run, CUSTOM_URL, DEV, url, new_article, saved_url, marker_before,
                   checked, fetched, sent, published, published_before, printed>>

\* `if article.new_article and article.is_valid: image = TextImage(article)`
MainPkg ==
    /\ rpc = "article" /\ variant = "pkg" /\ apc = "done"
    /\ IF new_article /\ is_valid
       THEN /\ rpc' = "image"
            /\ ipc' = "title"
            /\ BeginParse(title)
       ELSE /\ rpc' = "finished"
            /\ UNCHANGED <<ipc, wrapVars>>
    /\ UNCHANGED <<bi, title_parsed, preface_parsed, body_list, heights, img, variant,
                   articleVars, clsVars, attrVars, capVars, run, CUSTOM_URL, DEV, url,
                   new_article, saved_url, marker_before, checked, fetched, sent,
                   published, published_before, printed, raised>>

\* `if accepted_article: tweet_text = self.create_tweet_text(...)`, which
\* calls get_source_url
MainLegacy ==
    /\ rpc = "article" /\ variant = "legacy" /\ cpc = "done"
    /\ IF is_valid
       THEN rpc' = "tweet" /\ tpc' = "call" /\ apc' = "start"
       ELSE rpc' = "finished" /\ UNCHANGED <<tpc, apc>>
    /\ UNCHANGED <<source_url, quotes, qi, searches, errors, keywords, hashtag_dict,
                   tweet, keyword_list, variant, wrapVars, articleVars, clsVars,
                   imgVars, run, CUSTOM_URL, DEV, url, new_article, saved_url,
                   marker_before, checked, fetched, sent, published,
                   published_before, printed, raised>>

\* self.draw_image(title, preface, body) after create_tweet_text
LegacyDraw ==
    /\ rpc = "tweet" /\ variant = "legacy" /\ tpc = "done"
    /\ rpc' = "image"
    /\ ipc' = "title"
    /\ BeginParse(title)
    /\ UNCHANGED <<bi, title_parsed, preface_parsed, body_list, heights, img, variant,
                   articleVars, clsVars, attrVars, capVars, run, CUSTOM_URL, DEV, url,
                   new_article, saved_url, marker_before, checked, fetched, sent,
                   published, published_before, printed, raised>>

\* parse_text never returns for a word wider than the wrap width
ImageAbort ==
    /\ rpc = "image" /\ wpc = "MemoryError"
    /\ raised' = "MemoryError"
    /\ rpc' = "aborted"
    /\ UNCHANGED <<variant, wrapVars, articleVars, clsVars, attrVars, capVars, imgVars,
                   run, CUSTOM_URL, DEV, url, new_article, saved_url, marker_before,
                   checked, fetched, sent, published, published_before, printed>>

\* `if CUSTOM_URL: print(tweet.tweet) else: tweet.send_tweet()`
SendTweet ==
    /\ rpc = "tweet" /\ variant = "pkg" /\ tpc = "done"
    /\ IF CUSTOM_URL # <<>>
       THEN /\ printed' = TRUE
            /\ rpc' = "finished"
            /\ UNCHANGED <<sent, published, raised>>
       ELSE /\ sent' = sent + 1
            /\ \/ /\ published' = published + 1
                  /\ rpc' = "finished"
                  /\ UNCHANGED raised
               \/ /\ raised' = "TweepError"
                  /\ rpc' = "aborted"
                  /\ UNCHANGED published
            /\ UNCHANGED printed
    /\ UNCHANGED <<variant, wrapVars, articleVars, clsVars, attrVars, capVars, imgVars,
                   run, CUSTOM_URL, DEV, url, new_article, saved_url, marker_before,
                   checked, fetched, published_before>>

\* tweet_image: posts when DEV is False, logs the text otherwise
TweetImage ==
    /\ rpc = "send" /\ variant = "legacy"
    /\ IF DEV = FALSE
       THEN /\ sent' = sent + 1
            /\ \/ /\ published' = published + 1
                  /\ rpc' = "finished"
                  /\ UNCHANGED raised
               \/ /\ raised' = "TweepError"
                  /\ rpc' = "aborted"
                  /\ UNCHANGED published
            /\ UNCHANGED printed
       ELSE /\ printed' = TRUE
            /\ rpc' = "finished"
            /\ UNCHANGED <<sent, published, raised>>
    /\ UNCHANGED <<variant, wrapVars, articleVars, clsVars, attrVars, capVars, imgVars,
                   run, CUSTOM_URL, DEV, url, new_article, saved_url, marker_before,
                   checked, fetched, published_before>>

\* the program as configured: CUSTOM_URL / TEST_URL given or None, and the
\* earlier variant's DEV flag either way
Init ==
    /\ variant \in {"pkg", "legacy"}
    /\ CUSTOM_URL \in {<<>>} \cup CustomUrls
    /\ DEV \in (IF variant = "legacy" THEN BOOLEAN ELSE {FALSE})
    /\ NoArticle
    /\ IdleWrap
    /\ IdleClassifier
    /\ IdleResolver
    /\ IdleComposer
    /\ IdleImage
    /\ IdleRun

Next ==
    \/ StartRun
    \/ UseCustomUrl
    \/ RetrieveUrl
    \/ CheckNewUrl
    \/ Scrape
    \/ NoNewArticle
    \/ CheckArticle
    \/ CallGetSourceUrl
    \/ GetSourceUrlStart
    \/ GetSourceUrlQuote
    \/ GetSourceUrlLegacy
    \/ SearchAbort
    \/ MainPkg
    \/ MainLegacy
    \/ CreateTweet
    \/ LegacyDraw
    \/ ParseTextStep
    \/ ImageNext
    \/ ImageAbort
    \/ MeasureHeights
    \/ DrawImage
    \/ SendTweet
    \/ TweetImage

Spec == Init /\ [][Next]_vars

-----------------------------------------------------------------------------
(* The line wrapper's properties *)

RECURSIVE SplitLinesFrom(_, _, _)
SplitLinesFrom(s, i, cur) ==
    IF i > Len(s) THEN <<cur>>
    ELSE IF s[i] = NL THEN <<cur>> \o SplitLinesFrom(s, i + 1, <<>>)
         ELSE SplitLinesFrom(s, i + 1, Append(cur, s[i]))

\* the lines of a wrapped text: what stands between two line breaks
Lines(s) == SplitLinesFrom(s, 1, <<>>)

RECURSIVE MeasuredWidth(_, _)
\* the sum of the widths of the words, each measured with its trailing space
MeasuredWidth(f, words) ==
    IF words = <<>> THEN 0
    ELSE getsize(f, Append(Head(words), SP)) + MeasuredWidth(f, Tail(words))

\* a word the font makes wider than the wrap width
IsWide(word) == getsize(font, word) > max_width(variant)
HasWideWord == \E i \in 1..Len(InitialWordList(text)) : IsWide(InitialWordList(text)[i])

\* C1: every line of the text parse_text returns has a measured width of at
\* most max_width, unless it is a single word wider than max_width; the words
\* of the result are the words of the text, whole and in their order.
C1_LinesFit ==
    wpc = "done" =>
        /\ \A i \in 1..Len(Lines(parsed_text)) :
              LET words == Split(Lines(parsed_text)[i])
              IN  \/ MeasuredWidth(font, words) <= max_width(variant)
                  \/ Len(words) = 1 /\ IsWide(Append(words[1], SP))
        /\ Split(parsed_text) = Split(text)

\* a text of three words was wrapped into two lines, one of them of two words
C1_Witness ==
    /\ wpc = "done"
    /\ Len(Split(text)) = 3
    /\ Len(Lines(parsed_text)) = 2
    /\ \E i \in 1..2 : Len(Split(Lines(parsed_text)[i])) = 2

\* C2: for a text with a word wider than max_width the loop ends, and the
\* text returned has that word alone on its line.
C2_WideWordAlone ==
    HasWideWord =>
        /\ wpc # "MemoryError"
        /\ wpc = "done" =>
              \A i \in 1..Len(Lines(parsed_text)) :
                 LET words == Split(Lines(parsed_text)[i])
                 IN  (\E j \in 1..Len(words) : IsWide(Append(words[j], SP)))
                        => Len(words) = 1


-----------------------------------------------------------------------------
(* The classifier's properties *)

RECURSIVE SumLen(_)
SumLen(b) == IF b = <<>> THEN 0 ELSE Len(Head(b)) + SumLen(Tail(b))

\* the combined length: the preface, the paragraphs, one space between two paragraphs
CombinedLength ==
    Len(preface) + SumLen(body) + (IF Len(body) = 0 THEN 0 ELSE Len(body) - 1)

\* the body holds the roundup marker, or (packaged code) the title names twitter
HasRoundupMarker ==
    \/ \E i \in 1..Len(body) : Contains(Lower(body[i]), STR_greep)
    \/ variant = "pkg" /\ Contains(Lower(title), STR_twitter)

\* the body holds the match report marker, a rule of the earlier code only
HasMatchReportMarker ==
    variant = "legacy" /\ \E i \in 1..Len(body) : Contains(Lower(body[i]), STR_scoreverloop)

\* the first n characters of s
FirstChars(s, n) == SubSeq(s, 1, IF Len(s) < n THEN Len(s) ELSE n)

HasLineUpTitle ==
    \/ FirstChars(Lower(title), 5) = STR_de11
    \/ FirstChars(Lower(title), 10) = STR_opstelling

NoTopicMarkers == ~HasRoundupMarker /\ ~HasMatchReportMarker /\ ~HasLineUpTitle

\* C3: an article with no topic markers is accepted exactly when its combined
\* length L satisfies 400 <= L <= 2000; below 400 it is rejected as too short,
\* above 2000 as too long.
C3_LengthRule ==
    (cpc = "done" /\ NoTopicMarkers) =>
        /\ is_valid <=> (400 <= CombinedLength /\ CombinedLength <= 2000)
        /\ CombinedLength <= 399 => log = "Article too short"
        /\ CombinedLength >= 2001 => log = "Article too long"

\* an article of exactly 400 characters, in two paragraphs, was accepted
C3_Witness ==
    /\ cpc = "done" /\ NoTopicMarkers
    /\ CombinedLength = 400 /\ Len(body) = 2 /\ is_valid

\* C4 as stated: a line-up title is rejected with the line-up reason whatever
\* the preface and the body are.
C4_LineUpWhateverBody ==
    (cpc = "done" /\ HasLineUpTitle) => (~is_valid /\ log = "Line-up")

\* C4 as amended: a line-up title is rejected whatever the preface and the
\* body are; the reason logged is the line-up one exactly when no earlier rule
\* (too short, too long, roundup, match report) rejects the article first.
C4_LineUpRejected ==
    (cpc = "done" /\ HasLineUpTitle) =>
        /\ ~is_valid
        /\ log = "Line-up" <=>
              /\ 400 <= CombinedLength /\ CombinedLength <= 2000
              /\ ~HasRoundupMarker /\ ~HasMatchReportMarker

\* a line-up title with a body of accepted length was rejected as a line-up
C4_Witness ==
    /\ cpc = "done" /\ HasLineUpTitle
    /\ CombinedLength >= 400 /\ ~is_valid /\ log = "Line-up"


-----------------------------------------------------------------------------
(* The attribution resolver's properties *)

\* the text the names are looked up in: title, preface and body text
ArticleText == Join(<<SP>>, <<title, preface, Join(<<SP>>, body)>>)

\* the journalist (the outlet) at place i of its table is named in the article
JournalistNamed(i) == Contains(ArticleText, journalists[i][1])
OutletNamed(i) == Contains(ArticleText, sources[i][1])

NoJournalistNamed == \A i \in 1..Len(journalists) : ~JournalistNamed(i)

\* the body text holds a double-quoted span: two quotation marks with at
\* least one character, and no quotation mark, between them
HasQuotedSpan ==
    LET txt == Join(<<SP>>, body)
    IN  \E i, j \in 1..Len(txt) :
           /\ i + 1 < j /\ txt[i] = DQ /\ txt[j] = DQ
           /\ \A k \in (i + 1)..(j - 1) : txt[k] # DQ

\* no search gave a link: each one issued came back without items
NoSearchHit == \A k \in 1..Len(searches) : searches[k].outcome = "no items"

\* C5: when a journalist of the table is named in the article, the result is
\* the handle of the first such journalist in table order, whatever outlets
\* and quotes the article holds, and no search is issued.
C5_JournalistFirst ==
    (variant = "pkg" /\ apc # "start") =>
        \A i \in 1..Len(journalists) :
            (JournalistNamed(i) /\ \A k \in 1..(i - 1) : ~JournalistNamed(k)) =>
                /\ apc = "done"
                /\ source_url = Str(journalists[i][2])
                /\ searches = <<>>

\* an article naming two journalists (the later one of the table first in the
\* text), an outlet and a quote resolved to the first journalist of the table
C5_Witness ==
    /\ variant = "pkg" /\ apc = "done"
    /\ JournalistNamed(1) /\ JournalistNamed(2)
    /\ body[1] = Chars("Mike Verweij meldt")
    /\ \E i \in 1..Len(sources) : OutletNamed(i)
    /\ source_url = Str(Chars("@RikElfrink"))

\* C6 as stated: with no journalist named, an outlet named and no search hit,
\* the result is the handle of the first outlet named, also when the body
\* holds no quoted span.
C6_OutletHandleAlways ==
    (variant = "pkg" /\ apc = "done" /\ NoJournalistNamed /\ NoSearchHit) =>
        \A i \in 1..Len(sources) :
            (OutletNamed(i) /\ \A k \in 1..(i - 1) : ~OutletNamed(k)) =>
                source_url = Str(sources[i][2])

\* C6 as amended: with no journalist named, an outlet named and no search
\* hit, the result is the handle of the first outlet named when the body holds
\* a quoted span, and None when it holds none.
C6_OutletHandleIfQuoted ==
    (variant = "pkg" /\ apc = "done" /\ NoJournalistNamed /\ NoSearchHit) =>
        \A i \in 1..Len(sources) :
            (OutletNamed(i) /\ \A k \in 1..(i - 1) : ~OutletNamed(k)) =>
                source_url = IF HasQuotedSpan THEN Str(sources[i][2]) ELSE None

\* two outlets named, a short quote skipped and a long one searched without
\* a result: the handle of the outlet first in the table
C6_Witness ==
    /\ variant = "pkg" /\ apc = "done" /\ NoJournalistNamed
    /\ OutletNamed(5) /\ OutletNamed(9)
    /\ Len(quotes) = 2 /\ Len(searches) = 1 /\ NoSearchHit
    /\ source_url = Str(Chars("@ESPNnl"))

\* what resolution gives when every search comes back without items: the
\* handle of the first outlet named (the earlier variant has no handles: None)
NoHitResult ==
    IF variant = "pkg"
    THEN Str(sources[CHOOSE i \in 1..Len(sources) :
                        OutletNamed(i) /\ \A k \in 1..(i - 1) : ~OutletNamed(k)][2])
    ELSE None

\* C7: a search that fails does not abort the resolution: the failure is
\* logged and the resolution goes on, and when no search gives a link the
\* result is the one of the case where every search comes back without items.
C7_SearchFailureNotFatal ==
    (\E k \in 1..Len(searches) : searches[k].outcome = "raises") =>
        /\ apc # "raised"
        /\ errors > 0
        /\ (apc = "done" /\ \A k \in 1..Len(searches) :
                                searches[k].outcome \in {"raises", "no items"})
              => source_url = NoHitResult


-----------------------------------------------------------------------------
(* The caption composer's properties *)

\* keyword n is in the hashtag table, is one word, and occurs in the title
\* whatever the case of its letters
Spliceable(n) ==
    /\ InDict(hashtag_dict, keywords[n])
    /\ Len(Split(keywords[n])) = 1
    /\ Contains(Casefold(title), Casefold(keywords[n]))

\* the caption holds a '#' with the keyword right after it
HashBefore(k) ==
    \E i \in 1..Len(tweet) :
        /\ tweet[i] = "#"
        /\ i + Len(k) <= Len(tweet)
        /\ Casefold(SubSeq(tweet, i + 1, i + Len(k))) = Casefold(k)

\* C8: every keyword that is in the hashtag table, is a single word and occurs
\* in the title stands in the caption with a '#' right before it, and its
\* hashtag is no entry of the list below the title.
C8_HashtagSpliced ==
    tpc = "done" =>
        \A n \in 1..Len(keywords) :
            Spliceable(n) =>
                /\ HashBefore(keywords[n])
                /\ \A m \in 1..Len(keyword_list) :
                      keyword_list[m] # Lookup(hashtag_dict, keywords[n])


-----------------------------------------------------------------------------
(* The run's properties *)

\* C9: a run that aborts on a fatal error has published nothing and leaves
\* SAVE_FILE as the run found it.
C9_AbortLeavesNoTrace ==
    rpc = "aborted" => (published = published_before /\ saved_url = marker_before)

-----------------------------------------------------------------------------
(* The seen-url store's properties *)

\* SAVE_FILE holding the url u
Marker(u) == [exists |-> TRUE, url |-> u]

\* a step that is a call of check_new_url
IsCheckNewUrl == rpc = "retrieved" /\ rpc' = "checked"

\* C10: a call of check_new_url returns False exactly when SAVE_FILE exists and
\* holds the url checked, and after the call SAVE_FILE holds the url checked;
\* so over a sequence of calls one returns False exactly when the call before
\* it checked the same url, whatever was checked earlier.
C10_SeenUrlStore ==
    /\ [][IsCheckNewUrl =>
            /\ new_article' = ~(saved_url.exists /\ saved_url.url = url)
            /\ saved_url' = Marker(url)]_vars
    /\ [](\A i \in DOMAIN checked :
            checked[i].new_article = ~(i > 1 /\ checked[i - 1].url = checked[i].url))

\* the urls A, B, A were checked and the third call returned True
C10_Witness ==
    /\ Len(checked) >= 3
    /\ checked[1].url = checked[3].url
    /\ checked[2].url # checked[1].url
    /\ checked[3].new_article
    /\ saved_url = Marker(checked[3].url)
    /\ rpc = "checked"

-----------------------------------------------------------------------------
(* The layout renderer's properties *)

\* the paddings of an image added up: TITLE_PAD, PREFACE_PAD and BODY_PAD twice
\* in the packaged code; 30, 15, 10 and 85 in the earlier code
FixedPadding(v) ==
    IF v = "pkg" THEN TITLE_PAD + PREFACE_PAD + BODY_PAD + BODY_PAD
    ELSE 30 + 15 + 10 + 85

\* the heights draw_image was given: the heights measured, or (earlier code)
\* the lines of each text times 50, 36 and 36
GivenHeights ==
    IF variant = "pkg" THEN heights
    ELSE [title |-> 50 * get_sentences(title_parsed),
          preface |-> 36 * get_sentences(preface_parsed),
          body |-> 36 * get_sentences(JoinBody(variant, body_list))]

\* C11: in the image draw_image wrote, each block starts at the heights of
\* the blocks above it plus fixed paddings, the image is as high as the three
\* blocks and the fixed paddings together, the title, the preface and the body
\* follow each other without overlap inside the image, and the band covers
\* the title and ends above the preface.
C11_BlocksStacked ==
    img.saved /\ ipc = "done" =>
        /\ img.title_height = GivenHeights.title
        /\ img.preface_height = GivenHeights.preface
        /\ img.body_height = GivenHeights.body
        /\ variant = "pkg" =>
              /\ img.y_title = TITLE_PAD
              /\ img.y_preface = img.y_title + img.title_height + PREFACE_PAD
              /\ img.y_body = img.y_preface + img.preface_height + BODY_PAD
        /\ img.height = img.title_height + img.preface_height + img.body_height
                           + FixedPadding(variant)
        /\ 0 <= img.y_title
        /\ img.y_title + img.title_height < img.y_preface
        /\ img.y_preface + img.preface_height < img.y_body
        /\ img.y_body + img.body_height <= img.height
        /\ img.y_title + img.title_height <= img.band
        /\ img.band < img.y_preface

\* the packaged draw_image wrote an image of three blocks of different
\* heights, one of them of no height
C11_Witness ==
    /\ variant = "pkg" /\ img.saved /\ ipc = "done"
    /\ img.title_height > img.body_height
    /\ img.body_height > img.preface_height
    /\ img.preface_height = 0
    /\ img.height = img.y_body + img.body_height + BODY_PAD

-----------------------------------------------------------------------------
(* The line wrapper on the empty text *)

\* the image the earlier draw_image lays out when each block is the text t
LaidOut(t) == draw_image("legacy", NoHeights, t, t, t)

\* C12: the earlier parse_text returns for the empty text a text of no words
\* and no line breaks, and the height draw_image derives for that block from
\* get_sentences and its per-line constant is zero.
C12_EmptyTextNoHeight ==
    variant = "legacy" /\ text = <<>> /\ wpc = "done" =>
        /\ Split(parsed_text) = <<>>
        /\ Count(parsed_text, NL) = 0
        /\ LaidOut(parsed_text).title_height = 0
        /\ LaidOut(parsed_text).preface_height = 0
        /\ LaidOut(parsed_text).body_height = 0

-----------------------------------------------------------------------------
(* The packaged run's properties *)

\* the url of the run is the one SAVE_FILE held when the run started
UrlIsSaved == CUSTOM_URL = <<>> /\ marker_before.exists /\ marker_before.url = url

\* the article of the run was judged new: a custom url was given, or the url
\* of the last tweet is not the one SAVE_FILE held
JudgedNew == url # <<>> /\ ~UrlIsSaved

\* check_article ran and rejected the article
Rejected == cpc = "done" /\ ~is_valid

\* C13: in a run of the packaged pipeline update_with_media is called at most
\* once, and only for an article judged new that check_article accepted; a run
\* whose url is the saved one fetches, classifies, searches and publishes
\* nothing; a run whose article is rejected builds no image and publishes
\* nothing.
C13_PublishOnceNewAndValid ==
    variant = "pkg" =>
        /\ sent <= 1
        /\ published <= published_before + 1
        /\ sent >= 1 => JudgedNew /\ new_article /\ cpc = "done" /\ is_valid
        /\ UrlIsSaved =>
              /\ fetched = 0 /\ cpc = "idle" /\ apc = "idle" /\ searches = <<>>
              /\ sent = 0 /\ published = published_before
        /\ Rejected =>
              /\ ipc = "idle" /\ wpc = "idle"
              /\ sent = 0 /\ published = published_before

\* a second run of the packaged pipeline found another url than the saved one
\* and published its article
C13_Witness ==
    /\ variant = "pkg" /\ run = 2 /\ rpc = "finished"
    /\ marker_before.exists /\ JudgedNew /\ is_valid
    /\ sent = 1 /\ published = published_before + 1
    /\ img.saved

=============================================================================
